---- MODULE Spec2Model ----
(***************************************************************************)
(* A model of the PubMed retrieval layer of meta-analysis-ai-backend:      *)
(*   services/pubmed_service.py  PubMedService                             *)
(*   Pubmed_retrieval.py         EnhancedPubMedSearcher                    *)
(* Response bodies are sequences of one-character strings; Python's None   *)
(* is the value PyNone.  Every request is one logical session.get, whose   *)
(* HTTP attempts are steps of the transport (urllib3 Retry).               *)
(***************************************************************************)
EXTENDS Integers, Sequences, FiniteSets, TLC

VARIABLES
    impl,        \* "svc" (PubMedService) or "enh" (EnhancedPubMedSearcher)
    max_results, \* the max_results argument of search_papers
    pc,          \* position of the caller
    retriesLeft, \* Retry.total of the logical request in flight
    attempts,    \* HTTP attempts made for the logical request in flight
    reply,       \* what session.get gave for the request in flight
    translation, \* local of the search
    total_count, \* local of the search
    start,       \* loop variable of the window loop / sub-batch loop
    all_pmids,   \* accumulator of the search
    pmids,       \* argument of the fetch
    papers,      \* accumulator of the fetch
    result,      \* what search returned
    trace,       \* requests sent and sleeps taken, in order
    upstream,    \* which answers the upstream gives: "any" or "flaky"
    start_idx,   \* argument of the paged fetch
    count,       \* argument of the paged fetch
    batch_pmids, \* the list the sub-batch loop runs over
    probeCount,  \* the Count element the probe's parsed response carried
    received,    \* history of the call in progress: each request answered and the answer
    returned,    \* history: the record list each fetch call returned
    script,      \* the upstream's answers, in order, when they are fixed beforehand
    firstResult, \* what the first of two searches over the same answers gave
    current_start, \* local of run_paginated_search
    choice,      \* the command run_paginated_search is carrying out
    entered,     \* how many commands run_paginated_search has read
    store,       \* the papers table: the row of each (question, pmid), or NoRow
    apiCall      \* the API request handled last

vars == <<impl, max_results, pc, retriesLeft, attempts, reply, translation,
          total_count, start, all_pmids, pmids, papers, result, trace,
          upstream, start_idx, count, batch_pmids, probeCount, received, returned,
          script, firstResult, current_start, choice, entered, store, apiCall>>

\* the variables of the retrieval layer, without the position of the caller
retrievalVarsButPc == <<impl, max_results, retriesLeft, attempts, reply, translation,
                        total_count, start, all_pmids, pmids, papers, result, trace,
                        upstream, start_idx, count, batch_pmids, probeCount, received, returned>>

\* the variables the retrieval layer's own steps never write
outerVars == <<script, firstResult, current_start, choice, entered, store, apiCall>>

----------------------------------------------------------------------------
(* Bounds of the model                                                     *)

\* longest Id list a window response carries in the model
MaxIds == 2
\* longest identifier list handed to the paged fetch in the model
MaxPmids == 41

----------------------------------------------------------------------------
(* Python values                                                           *)

PyNone == "<None>"

Min(a, b) == IF a <= b THEN a ELSE b

Max(a, b) == IF a >= b THEN a ELSE b

\* range(0, stop, step) of Python as the set of its members; step # 0
PyRange(stop, step) ==
    IF step > 0
    THEN {n \in 0..Max(stop, 0) : n < stop /\ n % step = 0}
    ELSE {n \in Min(stop, 0)..0 : n > stop /\ (-n) % (-step) = 0}

\* seq[i:j] of Python for 0 <= i, 0 <= j
PySlice(seq, i, j) ==
    LET hi == Min(j, Len(seq))
    IN  IF i >= hi THEN <<>> ELSE SubSeq(seq, i + 1, hi)

----------------------------------------------------------------------------
(* Text: sequences of one-character strings                                *)

UpperChars == <<"A","B","C","D","E","F","G","H","I","J","K","L","M",
                "N","O","P","Q","R","S","T","U","V","W","X","Y","Z">>

LowerChars == <<"a","b","c","d","e","f","g","h","i","j","k","l","m",
                "n","o","p","q","r","s","t","u","v","w","x","y","z">>

Whitespace == {" ", "\t", "\n", "\r"}

\* a byte that is not valid UTF-8
InvalidByte == "xFF"

Digits == <<"0","1","2","3","4","5","6","7","8","9">>

LowerChar(c) ==
    IF \E i \in 1..26 : UpperChars[i] = c
    THEN LowerChars[CHOOSE i \in 1..26 : UpperChars[i] = c]
    ELSE c

\* str.lower()
Lower(s) == [i \in 1..Len(s) |-> LowerChar(s[i])]

\* bytes.decode('utf-8', errors='ignore')
Decode(b) == SelectSeq(b, LAMBDA c : c # InvalidByte)

\* str.strip()
Strip(s) ==
    LET keep == {i \in 1..Len(s) : s[i] \notin Whitespace}
    IN  IF keep = {} THEN <<>>
        ELSE LET lo == CHOOSE i \in keep : \A j \in keep : i <= j
                 hi == CHOOSE i \in keep : \A j \in keep : i >= j
             IN  SubSeq(s, lo, hi)

\* str.startswith(p)
StartsWith(s, p) == Len(s) >= Len(p) /\ SubSeq(s, 1, Len(p)) = p

\* k in s
Contains(s, k) ==
    \E i \in 1..(Len(s) - Len(k) + 1) : SubSeq(s, i, i + Len(k) - 1) = k

----------------------------------------------------------------------------
(* Response Classifier                                                     *)

KwMaintenance == <<"m","a","i","n","t","e","n","a","n","c","e">>

KwDownBethesda == <<"d","o","w","n","_","b","e","t","h","e","s","d","a">>

Kw302Found == <<"3","0","2"," ","f","o","u","n","d">>

KwDocumentMoved == <<"d","o","c","u","m","e","n","t"," ","h","a","s"," ",
                     "m","o","v","e","d">>

MaintenanceKeywords == {KwMaintenance, KwDownBethesda, Kw302Found, KwDocumentMoved}

\* _is_maintenance_page without lower(): a keyword is found only as spelled
MaintenancePageCaseSensitive(content) ==
    \E kw \in MaintenanceKeywords : Contains(Decode(content), kw)

\* _is_maintenance_page(response_content)
IsMaintenancePage(content) ==
    LET content_str == Lower(Decode(content))
    IN  \E kw \in MaintenanceKeywords : Contains(content_str, kw)

\* _is_valid_xml_response that asks for the XML declaration
IsValidXmlResponseDeclarationOnly(content) ==
    StartsWith(Strip(Decode(content)), <<"<","?","x","m","l">>)

\* _is_valid_xml_response(response_content)
IsValidXmlResponse(content) ==
    LET content_str == Strip(Decode(content))
    IN  StartsWith(content_str, <<"<","?","x","m","l">>)
        \/ StartsWith(content_str, <<"<">>)

----------------------------------------------------------------------------
(* int(count_elem.text)                                                    *)

DigitValue(c) == (CHOOSE i \in 1..10 : Digits[i] = c) - 1

IsDigit(c) == \E i \in 1..10 : Digits[i] = c

RECURSIVE DigitsValue(_)
DigitsValue(s) ==
    IF s = <<>> THEN 0
    ELSE 10 * DigitsValue(SubSeq(s, 1, Len(s) - 1)) + DigitValue(s[Len(s)])

\* int(text) for a str: [ok |-> FALSE] stands for ValueError
PyInt(text) ==
    LET s == Strip(text)
        signed == s # <<>> /\ s[1] \in {"-", "+"}
        body == IF signed THEN Tail(s) ELSE s
    IN  IF body # <<>> /\ \A i \in 1..Len(body) : IsDigit(body[i])
        THEN [ok |-> TRUE,
              val |-> IF signed /\ s[1] = "-" THEN 0 - DigitsValue(body)
                      ELSE DigitsValue(body)]
        ELSE [ok |-> FALSE, val |-> 0]

----------------------------------------------------------------------------
(* What the upstream can answer                                            *)

\* no Count element, a Count element without text, a Count element with text
NoCount == [present |-> FALSE, none |-> TRUE, text |-> <<>>]

EmptyCount == [present |-> TRUE, none |-> TRUE, text |-> <<>>]

CountOf(t) == [present |-> TRUE, none |-> FALSE, text |-> t]

CountTexts == {<<"0">>, <<"2">>, <<"2","5","0","0">>, <<"a","b","c">>}

CountElems == {NoCount, EmptyCount} \cup {CountOf(t) : t \in CountTexts}

\* root.findtext('.//QueryTranslation'): None, '' or the text
QueryTranslations == {PyNone, "", "t"}

\* id_elem.text of an Id element: None for <Id/>
IdTexts == {"11", "22", PyNone}

RECURSIVE SeqsUpTo(_, _)
SeqsUpTo(S, n) ==
    IF n <= 0 THEN {<<>>}
    ELSE LET shorter == SeqsUpTo(S, n - 1)
         IN  shorter \cup {Append(s, x) : s \in {t \in shorter : Len(t) = n - 1}, x \in S}

\* what find() gives for a child element: no element, an element without
\* text, an element with text
NoElem == [present |-> FALSE, none |-> TRUE, text |-> <<>>]

EmptyElem == [present |-> TRUE, none |-> TRUE, text |-> <<>>]

ElemOf(t) == [present |-> TRUE, none |-> FALSE, text |-> t]

YearElems == {NoElem, EmptyElem, ElemOf(<<"2","0","2","0">>)}

MonthElems == {NoElem, EmptyElem, ElemOf(<<"J","a","n">>)}

DayElems == {NoElem, EmptyElem, ElemOf(<<"1","5">>)}

\* article_elem.find('.//PubDate'): present = FALSE when there is none
NoPubDate == [present |-> FALSE, year |-> NoElem, month |-> NoElem, day |-> NoElem]

PubDateOf(y, m, d) == [present |-> TRUE, year |-> y, month |-> m, day |-> d]

PubDateElems ==
    {NoPubDate} \cup {PubDateOf(y, m, d) : y \in YearElems, m \in MonthElems, d \in DayElems}

\* the text of the PMID element: "absent" when the article has no PMID element
PmidTexts == {"11", "22", PyNone, "absent"}

\* the text of the ArticleTitle element: "absent" when the article has none
TitleTexts == {"T", PyNone, "absent"}

\* a PubmedArticle element, by the children the parser reads
ArticleOf(pmid, title, pubdate) ==
    [pmid |-> pmid, title |-> title, pubdate |-> pubdate, raises |-> FALSE]

\* a PubmedArticle element on which a statement of the extraction raises
FailingArticleOf(pmid) ==
    [pmid |-> pmid, title |-> "T", pubdate |-> NoPubDate, raises |-> TRUE]

\* every PubmedArticle element of the model
AllArticleElems ==
    {ArticleOf(p, t, d) : p \in PmidTexts, t \in TitleTexts, d \in PubDateElems}

\* the PubmedArticle elements an efetch response of the search-then-fetch run carries
ArticleElems ==
    {ArticleOf("11", "T", PubDateOf(ElemOf(<<"2","0","2","0">>), NoElem, ElemOf(<<"1","5">>))),
     ArticleOf("22", "absent", NoPubDate),
     ArticleOf(PyNone, PyNone, PubDateOf(ElemOf(<<"2","0","2","0">>), NoElem, NoElem)),
     ArticleOf("absent", "T", PubDateOf(NoElem, NoElem, NoElem))}

\* most PubmedArticle elements of one efetch response in the model
MaxArticles == 2

\* ET.fromstring(response.content): wf = FALSE is ParseError
ParseErrorDoc == [wf |-> FALSE, qt |-> PyNone, count |-> NoCount, ids |-> <<>>, articles |-> <<>>]

DocOf(qt, cnt, ids, arts) ==
    [wf |-> TRUE, qt |-> qt, count |-> cnt, ids |-> ids, articles |-> arts]

BodyXml == <<"<","?","x","m","l",">">>

BodyTag == <<"\n","<","a",">">>

BodyXmlMaintenance == <<"<","?","x","m","l",">","M","a","i","n","t","e","N","A","N","C","E">>

BodyHtmlMaintenance == <<"<","h",">","m","a","i","n","t","e",InvalidByte,"n","a","n","c","e">>

BodyMoved == <<"3","0","2"," ","F","o","u","n","d">>

BodyText == <<"o","o","p","s">>

BodyEmpty == <<" ">>

Bodies == {BodyXml, BodyTag, BodyXmlMaintenance, BodyHtmlMaintenance,
           BodyMoved, BodyText, BodyEmpty}

\* the UTF-8 byte order mark EF BB BF, decoded to U+FEFF: str.strip() keeps it
ByteOrderMark == "xEFxBBxBF"

\* the bodies of the classifier runs: those above, the empty body, a document
\* behind a byte order mark, one behind an invalid byte, one behind text, and a
\* declaration behind white space
ClassifyBodies ==
    Bodies \cup {<<>>,
                 <<ByteOrderMark,"<","a",">">>,
                 <<InvalidByte,"<","a",">">>,
                 <<"o","<","a",">">>,
                 <<" ","\t","<","?","x","m","l",">">>}

\* expat accepts only bytes that are valid and start a document with '<',
\* after a byte order mark if there is one; an XML declaration has nothing
\* before it
CanBeWellFormed(body) ==
    LET doc == IF body # <<>> /\ body[1] = ByteOrderMark THEN Tail(body) ELSE body
    IN  /\ \A i \in 1..Len(body) : body[i] # InvalidByte
        /\ StartsWith(Strip(doc), <<"<">>)
        /\ StartsWith(Strip(doc), <<"<","?","x","m","l">>) => StartsWith(doc, <<"<","?","x","m","l">>)

----------------------------------------------------------------------------
(* Transport: requests.Session with HTTPAdapter(max_retries=Retry(...))    *)

\* Retry(total=3): the number of retries urllib3 allows after the first attempt
RetryTotal == 3

\* status_forcelist
StatusForcelist == {429, 500, 502, 503, 504}

\* an HTTP attempt that ends without a status line (connection or read error)
ConnectionError == 0

\* what one HTTP attempt can end in: no connection, or a status line
AttemptOutcomes == {ConnectionError, 200, 404, 503}

\* Retry.increment: one retry is used up
RetryIncrement(total) == total - 1

\* a Retry that gives up when no retry is left, one attempt early
RetryIsExhaustedAtZero(total) == total <= 0

\* Retry.is_exhausted
RetryIsExhausted(total) == total < 0

\* Retry.is_retry(method, status_code) and the connection errors urllib3 retries
AttemptIsRetried(outcome) ==
    outcome = ConnectionError \/ outcome \in StatusForcelist

\* a call site without response.raise_for_status()
RaisesForStatusNever(status) == FALSE

\* response.raise_for_status(): HTTPError for 4xx and 5xx
RaisesForStatus(status) == status >= 400 /\ status < 600

Request(kind, retstart, retmax, ids) ==
    [kind |-> kind, retstart |-> retstart, retmax |-> retmax, ids |-> ids]

SleepEvent == Request("sleep", 0, 0, <<>>)

NoReply == [fail |-> TRUE, status |-> -1, body |-> <<>>, doc |-> ParseErrorDoc]

\* session.get raised (ConnectionError, RetryError): a RequestException
TransportFailure == [fail |-> TRUE, status |-> 0, body |-> <<>>, doc |-> ParseErrorDoc]

\* the upstreams that answer a request with the same bytes whenever it is sent
SameBytesUpstreams == {"same_healthy", "same_maintenance", "same_down", "same_mixed"}

\* the answer a scripted upstream gives to the request in flight: the answers
\* are taken from the script in the order of the requests of the call
ScriptedAnswer == script[Min(Len(received) + 1, Len(script))]

\* what one HTTP attempt for req can end in
AttemptOutcomesFor(req) ==
    IF upstream = "scripted" THEN {ScriptedAnswer.status}
    ELSE IF upstream = "classify" THEN {200}
    ELSE IF upstream \notin SameBytesUpstreams THEN AttemptOutcomes
    ELSE IF upstream = "same_down" THEN {ConnectionError}
    ELSE IF upstream = "same_mixed"
    THEN (CASE req.retstart = 0 -> {200}
            [] req.retstart = 20 -> {404}
            [] OTHER -> {503})
    ELSE {200}

\* the bodies the model lets a response of this status carry
ResponseBodies(status) ==
    IF upstream = "scripted" THEN {ScriptedAnswer.body}
    ELSE IF upstream = "classify" THEN ClassifyBodies
    ELSE IF upstream = "flaky" THEN {BodyXml, BodyXmlMaintenance}
    ELSE IF upstream = "fetching" THEN {BodyXml, BodyXmlMaintenance, BodyText}
    ELSE IF upstream = "same_maintenance" THEN {BodyXmlMaintenance}
    ELSE IF upstream \in SameBytesUpstreams THEN {BodyXml}
    ELSE IF status = 200 THEN Bodies ELSE {BodyXml}

\* the efetch document of a healthy upstream: one article for each identifier asked for
HealthyFetchDoc(req) ==
    DocOf(PyNone, NoCount, <<>>, [i \in 1..Len(req.ids) |->
               ArticleOf(req.ids[i], "T", PubDateOf(ElemOf(<<"2","0","2","0">>), NoElem, NoElem))])

\* an efetch document that lacks the articles after the first
FirstArticleDoc(req) ==
    DocOf(PyNone, NoCount, <<>>, SubSeq(HealthyFetchDoc(req).articles, 1, 1))

\* the documents ET.fromstring can yield for a response to req with this body
ResponseDocs(req, body) ==
    IF ~CanBeWellFormed(body) THEN {ParseErrorDoc}
    ELSE IF upstream = "scripted" THEN {ScriptedAnswer.doc}
    ELSE IF upstream \in {"flaky", "classify"} \cup SameBytesUpstreams THEN {HealthyFetchDoc(req)}
    ELSE IF upstream = "fetching"
    THEN {ParseErrorDoc, HealthyFetchDoc(req), FirstArticleDoc(req)}
    ELSE {ParseErrorDoc} \cup
         CASE req.kind = "esearch_probe" ->
                {DocOf(qt, c, <<>>, <<>>) : qt \in QueryTranslations, c \in CountElems}
           [] req.kind = "esearch_window" ->
                {DocOf(PyNone, NoCount, ids, <<>>) :
                    ids \in SeqsUpTo(IdTexts, Min(MaxIds, Max(req.retmax, 0)))}
           [] OTHER ->
                {DocOf(PyNone, NoCount, <<>>, arts) :
                    arts \in SeqsUpTo(ArticleElems, MaxArticles)}

WaitStates == {"probe_wait", "window_wait", "batch_wait"}

GotState(p) ==
    CASE p = "probe_wait" -> "probe_got"
      [] p = "window_wait" -> "window_got"
      [] OTHER -> "batch_got"

\* session.get(...) begins: a fresh Retry for this logical request
Send(req, waitState) ==
    /\ trace' = Append(trace, req)
    /\ retriesLeft' = RetryTotal
    /\ attempts' = 0
    /\ reply' = NoReply
    /\ pc' = waitState

\* the same, after a sleep
SleepThenSend(req, waitState) ==
    /\ trace' = trace \o <<SleepEvent, req>>
    /\ retriesLeft' = RetryTotal
    /\ attempts' = 0
    /\ reply' = NoReply
    /\ pc' = waitState

\* one HTTP attempt of the request in flight (urllib3 urlopen with retries)
TransportAttempt ==
    /\ pc \in WaitStates
    /\ attempts' = attempts + 1
    /\ \E outcome \in AttemptOutcomesFor(trace[Len(trace)]) :
        IF AttemptIsRetried(outcome)
        THEN IF RetryIsExhausted(RetryIncrement(retriesLeft))
             THEN /\ reply' = TransportFailure
                  /\ received' = Append(received, [req |-> trace[Len(trace)], reply |-> reply'])
                  /\ pc' = GotState(pc)
                  /\ retriesLeft' = RetryIncrement(retriesLeft)
             ELSE /\ retriesLeft' = RetryIncrement(retriesLeft)
                  /\ UNCHANGED <<reply, pc, received>>
        ELSE /\ \E body \in ResponseBodies(outcome) :
                  \E doc \in ResponseDocs(trace[Len(trace)], body) :
                     reply' = [fail |-> FALSE, status |-> outcome, body |-> body, doc |-> doc]
             /\ received' = Append(received, [req |-> trace[Len(trace)], reply |-> reply'])
             /\ pc' = GotState(pc)
             /\ UNCHANGED retriesLeft
    /\ UNCHANGED <<impl, max_results, translation, total_count, start,
                   all_pmids, pmids, papers, result, trace,
                   upstream, start_idx, count, batch_pmids, probeCount,
                   returned>>
    /\ UNCHANGED outerVars

----------------------------------------------------------------------------
(* PubMedService.search_papers                                             *)

\* the query text of the call
Query == "q"

\* PubMed's max per request
PubMedMaxPerRequest == 1000

\* the max_results arguments the model calls search_papers with
MaxResultsChoices == {0, 1, 2, 1001}

\* a return that reports how many identifiers came back instead of total_count
SearchResultCountingReturned(tr, ids, total) ==
    [translation |-> tr, pmids |-> ids, total |-> Len(ids)]

\* return translation, all_pmids, total_count
SearchResult(tr, ids, total) == [translation |-> tr, pmids |-> ids, total |-> total]

\* the same try block without the _is_maintenance_page check
ResponseUnusableWithoutMaintenance(r) ==
    \/ r.fail
    \/ RaisesForStatus(r.status)
    \/ ~IsValidXmlResponse(r.body)
    \/ ~r.doc.wf

\* the except branch of a try block that holds get, raise_for_status, the two
\* classifier checks and ET.fromstring
ResponseUnusable(r) ==
    \/ r.fail
    \/ RaisesForStatus(r.status)
    \/ IsMaintenancePage(r.body)
    \/ ~IsValidXmlResponse(r.body)
    \/ ~r.doc.wf

\* root.findtext('.//QueryTranslation') or query
TranslationOf(doc) == IF doc.qt \in {PyNone, ""} THEN Query ELSE doc.qt

\* int(count_elem.text) raises: TypeError for None, ValueError for a non-number
CountRaises(doc) ==
    doc.count.present /\ (doc.count.none \/ ~PyInt(doc.count.text).ok)

\* int(count_elem.text) if count_elem is not None else 0
CountOfDoc(doc) == IF doc.count.present THEN PyInt(doc.count.text).val ELSE 0

\* batch_size = min(1000, max_results)
BatchSize(mr) == Min(PubMedMaxPerRequest, mr)

\* range(0, max_results, batch_size) with no early return: the loop no longer
\* looks at total_count
WindowStartsIgnoringTotal(total, mr) ==
    IF mr <= 0 THEN {} ELSE PyRange(mr, BatchSize(mr))

\* the offsets the window loop visits: none after the return of lines 87-88,
\* else range(0, min(total_count, max_results), batch_size)
WindowStarts(total, mr) ==
    IF total = 0 THEN {} ELSE PyRange(Min(total, mr), BatchSize(mr))

\* 'retmax': batch_size, the identifiers already asked for forgotten
RetMaxWholeBatch(mr, s) == BatchSize(mr)

\* 'retmax': 1000, the caller's limit forgotten
RetMaxUpstreamCap(mr, s) == PubMedMaxPerRequest

\* 'retmax': min(batch_size, max_results - start)
RetMax(mr, s) == Min(BatchSize(mr), mr - s)

WindowRequest(mr, s) == Request("esearch_window", s, RetMax(mr, s), <<>>)

\* a loop that asks again for the offset whose request failed
NextOffsetRetryingFailure(s, step, r) == IF ResponseUnusable(r) THEN s ELSE s + step

\* for ... in range(0, stop, step): the next offset, whatever the answer was
NextOffset(s, step, r) == s + step

\* a fetch loop whose sleep is skipped for a failed sub-batch, as the window loop's is
FetchSleepsOnSuccessOnly(r) == ~ResponseUnusable(r)

\* time.sleep(0.1) ends the body of the fetch loop, outside any try block
FetchSleeps(r) == TRUE

\* a loop that gives up at the first failed window: break where the code has continue
WindowEndsLoopOnFailure(r) == ResponseUnusable(r)

\* lines 113-114 and 123-125: a failed window is left with continue, nothing
\* in the loop body breaks or returns
WindowEndsLoop(r) == FALSE

\* an accumulator that drops the identifiers it already holds
RECURSIVE ExtendWithoutDuplicates(_, _)
ExtendWithoutDuplicates(acc, batch) ==
    IF batch = <<>> THEN acc
    ELSE ExtendWithoutDuplicates(
            IF \E i \in 1..Len(acc) : acc[i] = Head(batch) THEN acc ELSE Append(acc, Head(batch)),
            Tail(batch))

\* all_pmids.extend(batch_pmids)
Extend(acc, batch) == acc \o batch

\* search_papers is called: the probe is sent
SvcSearchCall ==
    /\ pc = "init"
    /\ impl = "svc"
    /\ Send(Request("esearch_probe", 0, 0, <<>>), "probe_wait")
    /\ UNCHANGED <<impl, max_results, translation, total_count, start,
                   all_pmids, pmids, papers, result,
                   upstream, start_idx, count, batch_pmids, probeCount,
                   received, returned>>
    /\ UNCHANGED outerVars

\* lines 62-104: the probe's response, up to the first window request
SvcProbeReply ==
    /\ pc = "probe_got"
    /\ impl = "svc"
    /\ IF ResponseUnusable(reply)
       THEN /\ result' = SearchResult(Query, <<>>, 0)
            /\ pc' = "searched"
            /\ UNCHANGED <<translation, total_count, start, trace, retriesLeft, attempts>>
            /\ reply' = reply
       ELSE IF CountRaises(reply.doc)
       THEN /\ translation' = TranslationOf(reply.doc)
            /\ pc' = "search_raised"
            /\ UNCHANGED <<result, total_count, start, trace, retriesLeft, attempts>>
            /\ reply' = reply
       ELSE /\ translation' = TranslationOf(reply.doc)
            /\ total_count' = CountOfDoc(reply.doc)
            /\ IF total_count' # 0 /\ BatchSize(max_results) = 0
               THEN /\ pc' = "search_raised"
                    /\ UNCHANGED <<result, start, trace, retriesLeft, attempts>>
                    /\ reply' = reply
               ELSE IF 0 \in WindowStarts(total_count', max_results)
               THEN /\ start' = 0
                    /\ Send(WindowRequest(max_results, 0), "window_wait")
                    /\ UNCHANGED result
               ELSE /\ result' = SearchResult(translation', <<>>, total_count')
                    /\ pc' = "searched"
                    /\ UNCHANGED <<start, trace, retriesLeft, attempts>>
                    /\ reply' = reply
    /\ all_pmids' = <<>>
    /\ probeCount' = IF ResponseUnusable(reply) THEN NoCount ELSE reply.doc.count
    /\ UNCHANGED <<impl, max_results, pmids, papers,
                   upstream, start_idx, count, batch_pmids,
                   received, returned>>
    /\ UNCHANGED outerVars

\* lines 109-128: one window's response, the sleep, and the next request or the return
SvcWindowReply ==
    /\ pc = "window_got"
    /\ impl = "svc"
    /\ LET skipped == ResponseUnusable(reply)
           next == NextOffset(start, BatchSize(max_results), reply)
       IN  /\ all_pmids' = IF skipped THEN all_pmids ELSE Extend(all_pmids, reply.doc.ids)
           /\ IF ~WindowEndsLoop(reply) /\ next \in WindowStarts(total_count, max_results)
              THEN /\ start' = next
                   /\ IF skipped
                      THEN Send(WindowRequest(max_results, next), "window_wait")
                      ELSE SleepThenSend(WindowRequest(max_results, next), "window_wait")
                   /\ UNCHANGED result
              ELSE /\ result' = SearchResult(translation, all_pmids', total_count)
                   /\ pc' = "searched"
                   /\ trace' = IF skipped THEN trace ELSE Append(trace, SleepEvent)
                   /\ reply' = reply
                   /\ UNCHANGED <<start, retriesLeft, attempts>>
    /\ UNCHANGED <<impl, max_results, translation, total_count, pmids, papers,
                   upstream, start_idx, count, batch_pmids, probeCount,
                   received, returned>>
    /\ UNCHANGED outerVars

----------------------------------------------------------------------------
(* The fetch stage: fetch_paper_details / fetch_article_details            *)

\* batch_size = 20 / sub_batch_size = 20
SubBatchSize == 20

\* ','.join(pmids) raises TypeError when an item is None
JoinRaises(ids) == \E i \in 1..Len(ids) : ids[i] = PyNone

\* pmid_elem.text if pmid_elem is not None else 'Unknown'
PmidOf(a) == IF a.pmid = "absent" THEN "Unknown" ELSE a.pmid

\* a parser without the sentinel: the title of an article without ArticleTitle is None
TitleOfWithoutSentinel(a) == IF a.title = "absent" THEN PyNone ELSE a.title

\* title_elem.text if title_elem is not None else 'No title available'
TitleOf(a) == IF a.title = "absent" THEN "No title available" ELSE a.title

\* str(None), as an f-string formats it
NoneText == <<"N","o","n","e">>

\* year_elem.text if year_elem is not None else '', as the f-string formats it
DatePart(e) == IF ~e.present THEN <<>> ELSE IF e.none THEN NoneText ELSE e.text

\* str.lstrip('-')
RECURSIVE LStripHyphens(_)
LStripHyphens(s) ==
    IF s # <<>> /\ Head(s) = "-" THEN LStripHyphens(Tail(s)) ELSE s

\* str.rstrip('-')
RECURSIVE RStripHyphens(_)
RStripHyphens(s) ==
    IF s # <<>> /\ s[Len(s)] = "-" THEN RStripHyphens(SubSeq(s, 1, Len(s) - 1)) ELSE s

\* str.strip('-')
StripHyphens(s) == RStripHyphens(LStripHyphens(s))

DateNotAvailable == <<"D","a","t","e"," ","n","o","t"," ","a","v","a","i","l","a","b","l","e">>

\* f"{year}-{month}-{day}".strip('-'), or 'Date not available' without PubDate
PublicationDate(pd) ==
    IF pd.present
    THEN StripHyphens(DatePart(pd.year) \o <<"-">> \o DatePart(pd.month)
                      \o <<"-">> \o DatePart(pd.day))
    ELSE DateNotAvailable

\* _parse_article_xml / parse_article_xml: the record of one PubmedArticle
ParseArticle(a) ==
    [pmid |-> PmidOf(a), title |-> TitleOf(a), publication_date |-> PublicationDate(a.pubdate)]

\* the except branch of _parse_article_xml / parse_article_xml is taken: the
\* function returns None
ExtractionRaises(a) == a.raises

\* a loop without the try block around the extraction: the first article that
\* raises ends _fetch_batch_details in its own except branch, which returns []
ParsedArticlesAbortingOnFailure(arts) ==
    IF \E i \in 1..Len(arts) : ExtractionRaises(arts[i])
    THEN <<>>
    ELSE [i \in 1..Len(arts) |-> ParseArticle(arts[i])]

\* for article_elem in root.findall('.//PubmedArticle'): the record of each
\* element is appended unless the extraction returned None (if paper:)
ParsedArticles(arts) ==
    LET kept == SelectSeq(arts, LAMBDA a : ~ExtractionRaises(a))
    IN  [i \in 1..Len(kept) |-> ParseArticle(kept[i])]

\* no raise_for_status: the body of an HTTP error response is parsed as well
BatchPapersIgnoringStatus(r) ==
    IF r.fail \/ IsMaintenancePage(r.body) \/ ~IsValidXmlResponse(r.body) \/ ~r.doc.wf
    THEN <<>>
    ELSE ParsedArticles(r.doc.articles)

\* _fetch_batch_details / fetch_batch_details, from the response on
BatchPapers(r) ==
    IF ResponseUnusable(r) THEN <<>>
    ELSE ParsedArticles(r.doc.articles)

\* an accumulator that outlives the call: the records of the last call stay in it
PapersOfLastCall == papers

\* papers = [] / articles = []
FreshPapers == <<>>

\* the slice one identifier too long: pmids[i:i + batch_size + 1]
SubBatchOverlapping(ids, i) == PySlice(ids, i, i + SubBatchSize + 1)

\* pmids[i:i + batch_size]
SubBatch(ids, i) == PySlice(ids, i, i + SubBatchSize)

\* the sub-batch at offset i is joined and requested; slept tells whether the
\* loop body before it ended in its sleep
RequestSubBatch(ids, i, slept) ==
    IF JoinRaises(SubBatch(ids, i))
    THEN /\ pc' = "fetch_raised"
         /\ trace' = IF slept THEN Append(trace, SleepEvent) ELSE trace
         /\ UNCHANGED <<retriesLeft, attempts, reply>>
    ELSE IF slept
    THEN SleepThenSend(Request("efetch", i, 0, SubBatch(ids, i)), "batch_wait")
    ELSE Send(Request("efetch", i, 0, SubBatch(ids, i)), "batch_wait")

\* lines 142-149: one sub-batch's response, the sleep, the next sub-batch or the return
BatchReply ==
    /\ pc = "batch_got"
    /\ papers' = papers \o BatchPapers(reply)
    /\ IF NextOffset(start, SubBatchSize, reply) < Len(batch_pmids)
       THEN /\ start' = NextOffset(start, SubBatchSize, reply)
            /\ RequestSubBatch(batch_pmids, start', FetchSleeps(reply))
       ELSE /\ pc' = "done"
            /\ trace' = IF FetchSleeps(reply) THEN Append(trace, SleepEvent) ELSE trace
            /\ UNCHANGED <<start, retriesLeft, attempts, reply>>
    /\ returned' = IF pc' = "done" THEN Append(returned, papers') ELSE returned
    /\ UNCHANGED <<impl, max_results, translation, total_count, all_pmids, pmids,
                   result, upstream, start_idx, count, batch_pmids, probeCount,
                   received>>
    /\ UNCHANGED outerVars

\* routers/pubmed_search.py line 34: fetch_paper_details(pmids) over what search returned
SvcFetchCall ==
    /\ pc = "searched"
    /\ impl = "svc"
    /\ pmids' = result.pmids
    /\ batch_pmids' = result.pmids
    /\ papers' = (IF pmids' = <<>> THEN <<>> ELSE FreshPapers)
    /\ start' = 0
    /\ IF pmids' = <<>>
       THEN /\ pc' = "done"
            /\ UNCHANGED <<trace, retriesLeft, attempts, reply>>
       ELSE RequestSubBatch(batch_pmids', 0, FALSE)
    /\ received' = <<>>
    /\ returned' = IF pc' = "done" THEN Append(returned, papers') ELSE returned
    /\ UNCHANGED <<impl, max_results, translation, total_count, all_pmids,
                   result, upstream, start_idx, count, probeCount>>
    /\ UNCHANGED outerVars

SvcBatchReply == impl = "svc" /\ BatchReply

\* the slice taken one place too far: pmids[start_idx + 1:end_idx + 1]
PagedSliceShifted(ids, s, c) == PySlice(ids, s + 1, Min(s + c, Len(ids)) + 1)

\* end_idx = min(start_idx + count, len(pmids)); pmids[start_idx:end_idx]
PagedSlice(ids, s, c) == PySlice(ids, s, Min(s + c, Len(ids)))

\* fetch_article_details(pmids, start_idx, count)
EnhFetchCall ==
    /\ pc = "paged_init"
    /\ impl = "enh"
    /\ papers' = (IF pmids = <<>> THEN <<>> ELSE FreshPapers)
    /\ start' = 0
    /\ IF pmids = <<>>
       THEN /\ pc' = "done"
            /\ UNCHANGED <<trace, retriesLeft, attempts, reply, batch_pmids>>
       ELSE /\ batch_pmids' = PagedSlice(pmids, start_idx, count)
            /\ IF batch_pmids' = <<>>
               THEN /\ pc' = "done"
                    /\ UNCHANGED <<trace, retriesLeft, attempts, reply>>
               ELSE RequestSubBatch(batch_pmids', 0, FALSE)
    /\ received' = <<>>
    /\ returned' = IF pc' = "done" THEN Append(returned, papers') ELSE returned
    /\ UNCHANGED <<impl, max_results, translation, total_count, all_pmids, pmids,
                   result, upstream, start_idx, count, probeCount>>
    /\ UNCHANGED outerVars

EnhBatchReply == impl = "enh" /\ BatchReply

----------------------------------------------------------------------------
(* EnhancedPubMedSearcher.get_pubmed_query_translation                     *)

\* batch_size = 1000
EnhBatchSize == 1000

\* max_results = 1000
EnhMaxResults == 1000

\* range(0, min(total_count, max_results), batch_size)
EnhWindowStarts(total) == PyRange(Min(total, EnhMaxResults), EnhBatchSize)

EnhWindowRequest(s) ==
    Request("esearch_window", s, Min(EnhBatchSize, EnhMaxResults - s), <<>>)

EnhSearchCall ==
    /\ pc = "init"
    /\ impl = "enh"
    /\ Send(Request("esearch_probe", 0, 0, <<>>), "probe_wait")
    /\ UNCHANGED <<impl, max_results, translation, total_count, start,
                   all_pmids, pmids, papers, result,
                   upstream, start_idx, count, batch_pmids, probeCount,
                   received, returned>>
    /\ UNCHANGED outerVars

\* lines 88-147: the probe's response, up to the first window request
EnhProbeReply ==
    /\ pc = "probe_got"
    /\ impl = "enh"
    /\ IF ResponseUnusable(reply)
       THEN /\ result' = SearchResult(Query, <<>>, 0)
            /\ pc' = "searched"
            /\ reply' = reply
            /\ UNCHANGED <<translation, total_count, start, trace, retriesLeft, attempts>>
       ELSE IF CountRaises(reply.doc)
       THEN /\ translation' = TranslationOf(reply.doc)
            /\ pc' = "search_raised"
            /\ reply' = reply
            /\ UNCHANGED <<result, total_count, start, trace, retriesLeft, attempts>>
       ELSE /\ translation' = TranslationOf(reply.doc)
            /\ total_count' = CountOfDoc(reply.doc)
            /\ IF total_count' # 0 /\ 0 \in EnhWindowStarts(total_count')
               THEN /\ start' = 0
                    /\ Send(EnhWindowRequest(0), "window_wait")
                    /\ UNCHANGED result
               ELSE /\ result' = SearchResult(translation', <<>>, total_count')
                    /\ pc' = "searched"
                    /\ reply' = reply
                    /\ UNCHANGED <<start, trace, retriesLeft, attempts>>
    /\ all_pmids' = <<>>
    /\ probeCount' = IF ResponseUnusable(reply) THEN NoCount ELSE reply.doc.count
    /\ UNCHANGED <<impl, max_results, pmids, papers,
                   upstream, start_idx, count, batch_pmids,
                   received, returned>>
    /\ UNCHANGED outerVars

\* lines 148-182: one window's response; a maintenance page returns at once
EnhWindowReply ==
    /\ pc = "window_got"
    /\ impl = "enh"
    /\ LET transportError == reply.fail \/ RaisesForStatus(reply.status)
           maintenance == ~transportError /\ IsMaintenancePage(reply.body)
           skipped == ResponseUnusable(reply)
           next == NextOffset(start, EnhBatchSize, reply)
       IN  /\ all_pmids' = IF skipped THEN all_pmids ELSE Extend(all_pmids, reply.doc.ids)
           /\ IF ~maintenance /\ next \in EnhWindowStarts(total_count)
              THEN /\ start' = next
                   /\ IF skipped
                      THEN Send(EnhWindowRequest(next), "window_wait")
                      ELSE SleepThenSend(EnhWindowRequest(next), "window_wait")
                   /\ UNCHANGED result
              ELSE /\ result' = SearchResult(translation, all_pmids', total_count)
                   /\ pc' = "searched"
                   /\ trace' = IF skipped THEN trace ELSE Append(trace, SleepEvent)
                   /\ reply' = reply
                   /\ UNCHANGED <<start, retriesLeft, attempts>>
    /\ UNCHANGED <<impl, max_results, translation, total_count, pmids, papers,
                   upstream, start_idx, count, batch_pmids, probeCount,
                   received, returned>>
    /\ UNCHANGED outerVars

\* no first search to compare with
NoFirstResult == [taken |-> FALSE, raised |-> FALSE, value |-> SearchResult(Query, <<>>, 0)]

\* the (question, pmid) pairs a row of the papers table can carry
Questions == {"q1", "q2"}

StoredPmids == {"11", "22"}

RowKeys == Questions \X StoredPmids

\* no row for this (question, pmid)
NoRow == [stored |-> FALSE, score |-> PyNone, screening_json |-> PyNone,
          extracted_data |-> PyNone]

EmptyStore == [k \in RowKeys |-> NoRow]

NoCall == [kind |-> "none", question_id |-> "", pmids |-> {}, status |-> 0]

\* nothing outside the retrieval layer is going on
OuterIdle ==
    /\ script = <<>>
    /\ firstResult = NoFirstResult
    /\ current_start = 50
    /\ choice = ""
    /\ entered = 0
    /\ store = EmptyStore
    /\ apiCall = NoCall

----------------------------------------------------------------------------
(* Specifications                                                          *)

\* search then fetch, as routers/pubmed_search.py runs PubMedService, and the
\* search of EnhancedPubMedSearcher
Init ==
    /\ impl \in {"svc", "enh"}
    /\ max_results \in (IF impl = "svc" THEN MaxResultsChoices ELSE {EnhMaxResults})
    /\ pc = "init"
    /\ retriesLeft = RetryTotal
    /\ attempts = 0
    /\ reply = NoReply
    /\ translation = Query
    /\ total_count = 0
    /\ start = 0
    /\ all_pmids = <<>>
    /\ pmids = <<>>
    /\ papers = <<>>
    /\ result = SearchResult(Query, <<>>, 0)
    /\ trace = <<>>
    /\ upstream = "any"
    /\ start_idx = 0
    /\ count = 0
    /\ batch_pmids = <<>>
    /\ probeCount = NoCount
    /\ received = <<>>
    /\ returned = <<>>
    /\ OuterIdle

Next ==
    \/ SvcSearchCall
    \/ TransportAttempt
    \/ SvcProbeReply
    \/ SvcWindowReply
    \/ SvcFetchCall
    \/ SvcBatchReply
    \/ EnhSearchCall
    \/ EnhProbeReply
    \/ EnhWindowReply

Spec == Init /\ [][Next]_vars

\* the identifiers of the paged fetch's list: position i and i + 23 hold the same one
IdNames == <<"p01","p02","p03","p04","p05","p06","p07","p08","p09","p10","p11","p12","p13","p14","p15","p16","p17","p18","p19","p20","p21","p22","p23">>

PmidList(n) == [i \in 1..n |-> IdNames[((i - 1) % Len(IdNames)) + 1]]

PagedLengths == {0, 1, SubBatchSize, SubBatchSize + 1, MaxPmids}

PagedStarts == {0, 1, SubBatchSize, SubBatchSize + 1, MaxPmids - 1, MaxPmids, MaxPmids + 1}

PagedCounts == {0, 1, SubBatchSize, SubBatchSize + 1, 50}

\* fetch_article_details over a given list, offset and count
InitPaged ==
    /\ impl = "enh"
    /\ max_results = EnhMaxResults
    /\ pc = "paged_init"
    /\ retriesLeft = RetryTotal
    /\ attempts = 0
    /\ reply = NoReply
    /\ translation = Query
    /\ total_count = 0
    /\ start = 0
    /\ all_pmids = <<>>
    /\ pmids \in {PmidList(n) : n \in PagedLengths}
    /\ papers = <<>>
    /\ result = SearchResult(Query, <<>>, 0)
    /\ trace = <<>>
    /\ upstream = "flaky"
    /\ start_idx \in PagedStarts
    /\ count \in PagedCounts
    /\ batch_pmids = <<>>
    /\ probeCount = NoCount
    /\ received = <<>>
    /\ returned = <<>>
    /\ OuterIdle

NextPaged ==
    \/ EnhFetchCall
    \/ TransportAttempt
    \/ EnhBatchReply

SpecPaged == InitPaged /\ [][NextPaged]_vars

\* one efetch response carrying one PubmedArticle element, any of the model's,
\* has arrived for a fetch over one identifier
ParseRequest == Request("efetch", 0, 0, <<"11">>)

ParseReply(a) ==
    [fail |-> FALSE, status |-> 200, body |-> BodyXml,
     doc |-> DocOf(PyNone, NoCount, <<>>, <<a>>)]

InitParse ==
    /\ impl \in {"svc", "enh"}
    /\ max_results = EnhMaxResults
    /\ pc = "batch_got"
    /\ retriesLeft = RetryTotal
    /\ attempts = 1
    /\ reply \in {ParseReply(a) : a \in AllArticleElems}
    /\ translation = Query
    /\ total_count = 0
    /\ start = 0
    /\ all_pmids = <<>>
    /\ pmids = <<"11">>
    /\ papers = <<>>
    /\ result = SearchResult(Query, <<"11">>, 1)
    /\ trace = <<ParseRequest>>
    /\ upstream = "any"
    /\ start_idx = 0
    /\ count = 50
    /\ batch_pmids = <<"11">>
    /\ probeCount = NoCount
    /\ received = <<[req |-> ParseRequest, reply |-> reply]>>
    /\ returned = <<>>
    /\ OuterIdle

NextParse ==
    \/ SvcBatchReply
    \/ EnhBatchReply

SpecParse == InitParse /\ [][NextParse]_vars

\* most PubmedArticle elements of the response of a run of SpecDrop
MaxDropArticles == 3

\* the PubmedArticle elements of those responses: two that are extracted and
\* one on which the extraction raises
DropArticleElems ==
    {ArticleOf("11", "T", NoPubDate), ArticleOf("22", PyNone, NoPubDate), FailingArticleOf("33")}

DropRequest == Request("efetch", 0, 0, <<"11", "22", "33">>)

\* one efetch response with up to MaxDropArticles elements has arrived for a
\* fetch over three identifiers
InitDrop ==
    /\ impl \in {"svc", "enh"}
    /\ max_results = EnhMaxResults
    /\ pc = "batch_got"
    /\ retriesLeft = RetryTotal
    /\ attempts = 1
    /\ reply \in {[fail |-> FALSE, status |-> 200, body |-> BodyXml,
                    doc |-> DocOf(PyNone, NoCount, <<>>, arts)] :
                      arts \in SeqsUpTo(DropArticleElems, MaxDropArticles)}
    /\ translation = Query
    /\ total_count = 0
    /\ start = 0
    /\ all_pmids = <<>>
    /\ pmids = DropRequest.ids
    /\ papers = <<>>
    /\ result = SearchResult(Query, DropRequest.ids, 3)
    /\ trace = <<DropRequest>>
    /\ upstream = "any"
    /\ start_idx = 0
    /\ count = 50
    /\ batch_pmids = DropRequest.ids
    /\ probeCount = NoCount
    /\ received = <<[req |-> DropRequest, reply |-> reply]>>
    /\ returned = <<>>
    /\ OuterIdle

NextDrop ==
    \/ SvcBatchReply
    \/ EnhBatchReply

SpecDrop == InitDrop /\ [][NextDrop]_vars

\* the list lengths of the fetch runs: none, one, a full sub-batch, one more,
\* two full sub-batches, and the longest of the model
FetchLengths == {0, 1, SubBatchSize, SubBatchSize + 1, 2 * SubBatchSize, MaxPmids}

\* the state at a call of the fetch stage over a list of identifiers: the
\* router about to call fetch_paper_details with what search returned, or a
\* caller about to call fetch_article_details(pmids)
FetchCallState(ups) ==
    /\ impl \in {"svc", "enh"}
    /\ max_results = EnhMaxResults
    /\ pc = (IF impl = "svc" THEN "searched" ELSE "paged_init")
    /\ retriesLeft = RetryTotal
    /\ attempts = 0
    /\ reply = NoReply
    /\ translation = Query
    /\ \E n \in FetchLengths :
          /\ total_count = n
          /\ result = SearchResult(Query, PmidList(n), n)
          /\ pmids = (IF impl = "svc" THEN <<>> ELSE PmidList(n))
    /\ start = 0
    /\ all_pmids = <<>>
    /\ papers = <<>>
    /\ trace = <<>>
    /\ upstream \in ups
    /\ start_idx = 0
    /\ count = 50
    /\ batch_pmids = <<>>
    /\ probeCount = NoCount
    /\ received = <<>>
    /\ returned = <<>>
    /\ OuterIdle

InitFetch == FetchCallState({"fetching"})

NextFetch ==
    \/ SvcFetchCall
    \/ EnhFetchCall
    \/ TransportAttempt
    \/ SvcBatchReply
    \/ EnhBatchReply

SpecFetch == InitFetch /\ [][NextFetch]_vars

\* the answer sequences of the scripted upstream: one answer for the probe and
\* one for the window request, each an HTTP outcome with its body and document
Scripts ==
    LET Answer(st, b, d) == [status |-> st, body |-> b, doc |-> d]
        probeDoc == DocOf("t", CountOf(<<"2">>), <<>>, <<>>)
        windowDoc == DocOf(PyNone, NoCount, <<"11">>, <<>>)
        Answers(good, docs) ==
            {Answer(st, BodyXml, good) : st \in AttemptOutcomes \ {200}}
            \cup {Answer(200, BodyXmlMaintenance, good), Answer(200, BodyText, ParseErrorDoc),
                  Answer(200, BodyXml, ParseErrorDoc)}
            \cup {Answer(200, BodyXml, d) : d \in docs}
        probes == Answers(probeDoc, {DocOf(qt, c, <<>>, <<>>) : qt \in QueryTranslations,
                                                              c \in CountElems})
        windows == Answers(windowDoc, {DocOf(PyNone, NoCount, ids, <<>>) :
                                          ids \in SeqsUpTo(IdTexts, MaxIds)})
    IN  {<<p, w>> : p \in probes, w \in windows}

\* get_pubmed_query_translation has returned or raised; search_papers is now
\* called with the same query and max_results = 1000, against an upstream that
\* gives the same answers again
SearchAgain ==
    /\ pc \in {"searched", "search_raised"}
    /\ impl = "enh"
    /\ ~firstResult.taken
    /\ firstResult' = [taken |-> TRUE, raised |-> (pc = "search_raised"), value |-> result]
    /\ impl' = "svc"
    /\ max_results' = EnhMaxResults
    /\ pc' = "init"
    /\ retriesLeft' = RetryTotal
    /\ attempts' = 0
    /\ reply' = NoReply
    /\ translation' = Query
    /\ total_count' = 0
    /\ start' = 0
    /\ all_pmids' = <<>>
    /\ result' = SearchResult(Query, <<>>, 0)
    /\ trace' = <<>>
    /\ probeCount' = NoCount
    /\ received' = <<>>
    /\ UNCHANGED <<pmids, papers, upstream, start_idx, count, batch_pmids, returned>>
    /\ UNCHANGED <<script, current_start, choice, entered, store, apiCall>>

InitEquiv ==
    /\ impl = "enh"
    /\ max_results = EnhMaxResults
    /\ pc = "init"
    /\ retriesLeft = RetryTotal
    /\ attempts = 0
    /\ reply = NoReply
    /\ translation = Query
    /\ total_count = 0
    /\ start = 0
    /\ all_pmids = <<>>
    /\ pmids = <<>>
    /\ papers = <<>>
    /\ result = SearchResult(Query, <<>>, 0)
    /\ trace = <<>>
    /\ upstream = "scripted"
    /\ start_idx = 0
    /\ count = 0
    /\ batch_pmids = <<>>
    /\ probeCount = NoCount
    /\ received = <<>>
    /\ returned = <<>>
    /\ script \in Scripts
    /\ firstResult = NoFirstResult
    /\ current_start = 50
    /\ choice = ""
    /\ entered = 0
    /\ store = EmptyStore
    /\ apiCall = NoCall

NextEquiv ==
    \/ EnhSearchCall
    \/ TransportAttempt
    \/ EnhProbeReply
    \/ EnhWindowReply
    \/ SearchAgain
    \/ SvcSearchCall
    \/ SvcProbeReply
    \/ SvcWindowReply

SpecEquiv == InitEquiv /\ [][NextEquiv]_vars

----------------------------------------------------------------------------
(* EnhancedPubMedSearcher.run_paginated_search                             *)

\* fetch_article_details(all_pmids, 0, 50)
FirstPageSize == 50

\* page_size = 50
PageSize == 50

\* most commands one run of the pagination loop reads
MaxCommands == 3

\* what get_pubmed_query_translation returned: the identifier list and the
\* total count; the list is shorter than the count when the window failed or
\* gave fewer identifiers (it never holds more than 1000)
SearchOutcomes ==
    {[ids |-> PmidList(c[1]), total |-> c[2]] :
        c \in {<<0, 0>>, <<0, 30>>, <<30, 30>>, <<0, 51>>, <<51, 51>>,
               <<0, 120>>, <<60, 120>>, <<120, 120>>}}

\* the lines typed at "Enter choice: "
ChoiceTexts == {<<"n">>, <<"P"," ">>, <<"j">>, <<"s">>, <<"q">>, <<"x">>}

\* the lines typed at "Enter page number"
JumpTexts == {<<"0">>, <<"1">>, <<" ","2">>, <<"3">>, <<"4">>, <<"x">>}

\* choice = input(...).lower().strip()
ChoiceOf(text) ==
    LET c == Strip(Lower(text))
    IN  IF c \in {<<"n">>, <<"p">>, <<"j">>, <<"s">>, <<"q">>} THEN c[1] ELSE "invalid"

\* a next command that leaves current_start where it was
AdvancedStartStaying(cs) == cs

\* current_start += page_size
AdvancedStart(cs) == cs + PageSize

\* lines 386-394: the search has returned; the first page is fetched unless
\* nothing was found
FirstPage ==
    /\ pc = "searched"
    /\ impl = "enh"
    /\ pmids' = result.pmids
    /\ IF total_count = 0
       THEN /\ pc' = "quit"
            /\ UNCHANGED <<choice, start_idx, count>>
       ELSE /\ choice' = "first"
            /\ start_idx' = 0
            /\ count' = FirstPageSize
            /\ pc' = "paged_init"
    /\ UNCHANGED <<impl, max_results, retriesLeft, attempts, reply, translation,
                   total_count, start, all_pmids, papers, result, trace, upstream,
                   batch_pmids, probeCount, received, returned>>
    /\ UNCHANGED <<script, firstResult, current_start, entered, store, apiCall>>

\* lines 405-452: one command is read and carried out up to its call of
\* fetch_article_details, or rejected; trace and returned are those of the
\* command in progress
PageCommand ==
    /\ pc = "prompt"
    /\ impl = "enh"
    /\ entered < MaxCommands
    /\ entered' = entered + 1
    /\ \E text \in ChoiceTexts, page \in JumpTexts :
          LET key == ChoiceOf(text)
              page_num == PyInt(page)
          IN  CASE key = "q" ->
                     /\ pc' = "quit"
                     /\ choice' = key
                     /\ UNCHANGED <<current_start, start_idx, count>>
                [] key = "n" /\ current_start < total_count ->
                     /\ start_idx' = current_start
                     /\ count' = PageSize
                     /\ pc' = "paged_init"
                     /\ choice' = key
                     /\ UNCHANGED current_start
                [] key = "p" /\ current_start > 50 ->
                     /\ current_start' = Max(50, current_start - PageSize)
                     /\ start_idx' = current_start' - PageSize
                     /\ count' = PageSize
                     /\ pc' = "paged_init"
                     /\ choice' = key
                [] key = "j" /\ page_num.ok /\ 1 <= page_num.val
                             /\ page_num.val <= (total_count + PageSize - 1) \div PageSize ->
                     /\ start_idx' = (page_num.val - 1) * PageSize
                     /\ current_start' = start_idx' + PageSize
                     /\ count' = PageSize
                     /\ pc' = "paged_init"
                     /\ choice' = key
                [] key = "s" ->
                     /\ start_idx' = 0
                     /\ count' = Min(current_start, total_count)
                     /\ pc' = "paged_init"
                     /\ choice' = key
                     /\ UNCHANGED current_start
                [] OTHER ->
                     /\ pc' = "prompt"
                     /\ choice' = ""
                     /\ UNCHANGED <<current_start, start_idx, count>>
    /\ trace' = <<>>
    /\ returned' = <<>>
    /\ UNCHANGED <<impl, max_results, retriesLeft, attempts, reply, translation,
                   total_count, start, all_pmids, pmids, papers, result, upstream,
                   batch_pmids, probeCount, received>>
    /\ UNCHANGED <<script, firstResult, store, apiCall>>

\* fetch_article_details has returned: the page is displayed (or saved), and
\* the loop is entered, gone round, or never entered (lines 395-403, 420-421)
PageShown ==
    /\ pc = "done"
    /\ impl = "enh"
    /\ choice # ""
    /\ IF choice = "first"
       THEN IF total_count > 50
            THEN /\ current_start' = 50
                 /\ pc' = "prompt"
            ELSE /\ pc' = "quit"
                 /\ UNCHANGED current_start
       ELSE /\ current_start' = (IF choice = "n" THEN AdvancedStart(current_start)
                                 ELSE current_start)
            /\ pc' = "prompt"
    /\ UNCHANGED retrievalVarsButPc
    /\ UNCHANGED <<script, firstResult, choice, entered, store, apiCall>>

InitPages ==
    /\ impl = "enh"
    /\ max_results = EnhMaxResults
    /\ pc = "searched"
    /\ retriesLeft = RetryTotal
    /\ attempts = 0
    /\ reply = NoReply
    /\ translation = Query
    /\ \E o \in SearchOutcomes :
          /\ total_count = o.total
          /\ result = SearchResult(Query, o.ids, o.total)
    /\ start = 0
    /\ all_pmids = result.pmids
    /\ pmids = <<>>
    /\ papers = <<>>
    /\ trace = <<>>
    /\ upstream = "same_healthy"
    /\ start_idx = 0
    /\ count = 50
    /\ batch_pmids = <<>>
    /\ probeCount = NoCount
    /\ received = <<>>
    /\ returned = <<>>
    /\ OuterIdle

NextPages ==
    \/ FirstPage
    \/ EnhFetchCall
    \/ TransportAttempt
    \/ EnhBatchReply
    \/ PageShown
    \/ PageCommand

SpecPages == InitPages /\ [][NextPages]_vars

\* the fetch stage against an upstream that answers 200 with any body of
\* ClassifyBodies, over a document that has the articles asked for when the
\* bytes can be parsed
SpecClassify == FetchCallState({"classify"}) /\ [][NextFetch]_vars

\* the caller calls fetch once more with the same list
FetchAgain ==
    /\ pc = "done"
    /\ Len(returned) < 2
    /\ pc' = (IF impl = "svc" THEN "searched" ELSE "paged_init")
    /\ UNCHANGED <<impl, max_results, retriesLeft, attempts, reply, translation,
                   total_count, start, all_pmids, pmids, papers, result, trace,
                   upstream, start_idx, count, batch_pmids, probeCount,
                   received, returned>>
    /\ UNCHANGED outerVars

InitTwice == FetchCallState(SameBytesUpstreams)

NextTwice ==
    \/ SvcFetchCall
    \/ EnhFetchCall
    \/ TransportAttempt
    \/ SvcBatchReply
    \/ EnhBatchReply
    \/ FetchAgain

SpecTwice == InitTwice /\ [][NextTwice]_vars

\* the search stage and the fetch stage, each from its call: the runs of Spec
\* and the runs of SpecFetch
NextStages ==
    \/ Next
    \/ EnhFetchCall
    \/ EnhBatchReply

SpecStages == (Init \/ InitFetch) /\ [][NextStages]_vars

----------------------------------------------------------------------------
(* The papers table: routers/pubmed_search.py, screening.py, extraction.py *)

\* what the AI service gives for the papers of one screening request: the
\* five screening columns and the score
Screenings == {[json |-> "A", score |-> "5.0"], [json |-> "B", score |-> "0.0"]}

\* search_pubmed, lines 36-62: each fetched record is stored under the
\* question unless a paper with its pmid is already stored under it
StorePapers ==
    \E q \in Questions, fetched \in SUBSET StoredPmids :
        /\ store' = [k \in RowKeys |->
                        IF k[1] = q /\ k[2] \in fetched /\ ~store[k].stored
                        THEN [NoRow EXCEPT !.stored = TRUE]
                        ELSE store[k]]
        /\ apiCall' = [kind |-> "search", question_id |-> q, pmids |-> fetched, status |-> 200]
        /\ UNCHANGED <<pc, script, firstResult, current_start, choice, entered>>
        /\ UNCHANGED retrievalVarsButPc

\* the lookup that leaves the question out: filter(Paper.pmid == pmid)
ScreeningLookupByPmid(q, pmid) ==
    {k \in RowKeys : k[2] = pmid /\ store[k].stored}

\* filter(Paper.question_id == request.question_id, Paper.pmid == pmid)
ScreeningLookup(q, pmid) ==
    {k \in RowKeys : k[1] = q /\ k[2] = pmid /\ store[k].stored}

\* screen_papers, lines 21-53: 404 for an unknown question; else the paper
\* found for each screening result (the table holds at most one for a question
\* and a pmid) gets its columns and its score
ScreenPapers ==
    \E q \in Questions \cup {"q9"}, named \in SUBSET StoredPmids, scr \in Screenings :
        /\ IF q \notin Questions
           THEN /\ store' = store
                /\ apiCall' = [kind |-> "screen", question_id |-> q, pmids |-> named,
                               status |-> 404]
           ELSE /\ LET found == UNION {ScreeningLookup(q, pmid) : pmid \in named}
                   IN  store' = [k \in RowKeys |->
                                    IF k \in found
                                    THEN [store[k] EXCEPT !.screening_json = scr.json,
                                                          !.score = scr.score]
                                    ELSE store[k]]
                /\ apiCall' = [kind |-> "screen", question_id |-> q, pmids |-> named,
                               status |-> 200]
        /\ UNCHANGED <<pc, script, firstResult, current_start, choice, entered>>
        /\ UNCHANGED retrievalVarsButPc

\* extract_data_from_papers, lines 58-92: the papers with a pmid of the
\* request, of any question; 404 when there is none; one result for each of
\* them, and for each result the first paper with its pmid, of whatever
\* question, gets the extracted data. first() has no ORDER BY: which of the
\* papers with that pmid it gives is the database's choice
ExtractData ==
    \E ids \in SUBSET StoredPmids :
        LET selected == {k \in RowKeys : k[2] \in ids /\ store[k].stored}
        IN  /\ IF selected = {}
               THEN /\ store' = store
                    /\ apiCall' = [kind |-> "extract", question_id |-> "", pmids |-> ids,
                                   status |-> 404]
               ELSE /\ \E updated \in SUBSET selected :
                          /\ \A k \in selected : \E u \in updated : u[2] = k[2]
                          /\ store' = [k \in RowKeys |->
                                          IF k \in updated
                                          THEN [store[k] EXCEPT !.extracted_data = "E"]
                                          ELSE store[k]]
                    /\ apiCall' = [kind |-> "extract", question_id |-> "", pmids |-> ids,
                                   status |-> 200]
            /\ UNCHANGED <<pc, script, firstResult, current_start, choice, entered>>
            /\ UNCHANGED retrievalVarsButPc

NextStore ==
    \/ StorePapers
    \/ ScreenPapers
    \/ ExtractData

\* the table starts empty; the retrieval layer is at rest
InitStore ==
    /\ Init
    /\ impl = "svc"
    /\ max_results = 1

SpecStore == InitStore /\ [][NextStore]_vars

----------------------------------------------------------------------------
(* Claims                                                                  *)

GotStates == {"probe_got", "window_got", "batch_got"}

RequestsOfKind(kind) == {i \in 1..Len(trace) : trace[i].kind = kind}

\* C1: running search and then fetch always ends by returning; no exception
\* ever leaves search or fetch, whatever the upstream answers.
C1_NoExceptionLeaves == pc \notin {"search_raised", "fetch_raised"}

\* the probe failed as C2 names it: transport failure, Maintenance, Malformed,
\* or a body that cannot be parsed
ProbeFailedAsClaimed(r) ==
    \/ r.fail
    \/ IsMaintenancePage(r.body)
    \/ (~IsMaintenancePage(r.body) /\ ~IsValidXmlResponse(r.body))
    \/ ~r.doc.wf

C3_ZeroCountFetchesNothing ==
    (pc \in {"searched", "done", "batch_wait", "batch_got", "fetch_raised"}
        /\ result.total = 0) =>
    (/\ result.pmids = <<>>
     /\ papers = <<>>
     /\ RequestsOfKind("esearch_window") = {}
     /\ RequestsOfKind("efetch") = {})

\* the probe parsed and said Count 0, search and fetch are over
C3_Witness ==
    /\ pc = "done"
    /\ impl = "svc"
    /\ max_results = 1001
    /\ probeCount = CountOf(<<"0">>)
    /\ result.total = 0
    /\ Len(trace) = 1

\* C4: after a probe that reports Count = N > 0, the totalCount search returns
\* is N, whatever the windows did and whatever maxResults is.
C4_TotalCountIsUpstreamCount ==
    pc \in {"searched", "done", "batch_wait", "batch_got", "fetch_raised"} =>
        /\ (probeCount = CountOf(<<"2">>) => result.total = 2)
        /\ (probeCount = CountOf(<<"2","5","0","0">>) => result.total = 2500)

\* Count 2500, both windows of max_results = 1001 lost, total still 2500
C4_Witness ==
    /\ pc = "searched"
    /\ max_results = 1001
    /\ probeCount = CountOf(<<"2","5","0","0">>)
    /\ Cardinality(RequestsOfKind("esearch_window")) = 2
    /\ result.pmids = <<>>
    /\ result.total = 2500

\* C5: with maxResults >= 1 the search returns at most maxResults identifiers
\* (each window response carrying at most the retmax it was asked with).
C5_AtMostMaxResults ==
    max_results >= 1 =>
        /\ Len(all_pmids) <= max_results
        /\ Len(result.pmids) <= max_results

\* the cap is met: max_results = 1 of 2500, one identifier returned
C5_Witness ==
    /\ pc = "searched"
    /\ max_results = 1
    /\ result.total = 2500
    /\ Len(result.pmids) = 1

\* C6: no window request is issued directly after another window request
\* without a delay in between, whether the earlier window succeeded or failed.
C6_DelayBetweenWindows ==
    \A i \in 1..(Len(trace) - 1) :
        ~(trace[i].kind = "esearch_window" /\ trace[i + 1].kind = "esearch_window")

\* a response the call site would use were it not for its status
UsableBut(r) ==
    /\ ~r.fail
    /\ r.status \notin StatusForcelist
    /\ ~IsMaintenancePage(r.body)
    /\ IsValidXmlResponse(r.body)
    /\ r.doc.wf

\* the ids of a record sequence
IdsOf(recs) == [i \in 1..Len(recs) |-> recs[i].pmid]

RecordsOf(arts) == [i \in 1..Len(arts) |-> [pmid |-> IF arts[i].pmid = "absent" THEN "Unknown" ELSE arts[i].pmid]]

\* C7 as claimed: a response with a status outside the retry set, 404
\* included, is classified, and its identifiers or records are used when it is
\* Valid and parseable.
C7_AnyStatusIsUsed ==
    [][/\ (pc = "window_got" /\ UsableBut(reply)) =>
            all_pmids' = all_pmids \o reply.doc.ids
       /\ (pc = "batch_got" /\ UsableBut(reply)) =>
            IdsOf(papers') = IdsOf(papers) \o IdsOf(RecordsOf(reply.doc.articles))]_vars

\* C7 amended: the transport hands over a response with a status outside the
\* retry set without an error; raise_for_status then turns a status of 400 or
\* above into an error the call site catches, so nothing of that body is used;
\* a status below 400 is classified and, Valid and parseable, used.
C7_StatusBelow400IsUsed ==
    [][/\ (pc \in WaitStates /\ pc' \in GotStates /\ reply'.fail) => attempts' > 1
       /\ (pc = "window_got" /\ UsableBut(reply)) =>
            all_pmids' = IF reply.status >= 400 THEN all_pmids
                         ELSE all_pmids \o reply.doc.ids
       /\ (pc = "batch_got" /\ UsableBut(reply)) =>
            IdsOf(papers') = IF reply.status >= 400 THEN IdsOf(papers)
                             ELSE IdsOf(papers) \o IdsOf(RecordsOf(reply.doc.articles))]_vars

\* a 404 whose body is valid XML with identifiers: the window is dropped
C7_Witness ==
    /\ pc = "searched"
    /\ ~reply.fail /\ reply.status = 404
    /\ UsableBut(reply)
    /\ reply.doc.ids # <<>>
    /\ Cardinality(RequestsOfKind("esearch_window")) = 1
    /\ result.pmids = <<>>
    /\ result.total = 2

\* C8 as claimed: at most 3 HTTP attempts for one logical request; exhaustion
\* ends it as a transport failure.
C8_AtMostThreeAttempts ==
    /\ attempts <= 3
    /\ (pc \in GotStates /\ reply.fail) => attempts = 3

\* C8 amended: at most 4 HTTP attempts (the first and 3 retries); every attempt
\* before the last ended in a connection failure or a status of the retry set;
\* after the fourth such attempt the request ends as a transport failure.
C8_AtMostFourAttempts ==
    /\ attempts <= 4
    /\ (pc \in WaitStates => attempts = 3 - retriesLeft /\ attempts <= 3)
    /\ (pc \in GotStates =>
          IF reply.fail THEN attempts = 4
          ELSE reply.status \notin {429, 500, 502, 503, 504})

\* a window request given up after its fourth attempt
C8_Witness ==
    /\ pc = "window_got"
    /\ reply.fail
    /\ attempts = 4

SameLetter(c, k) ==
    c = k \/ \E n \in 1..26 : LowerChars[n] = k /\ UpperChars[n] = c

\* the text holds "maintenance" in some mix of upper and lower case
HasMaintenanceAnyCase(text) ==
    \E i \in 1..(Len(text) - 10) :
        \A j \in 1..11 : SameLetter(text[i + j - 1], KwMaintenance[j])

\* C9: a response body that holds "maintenance" in any letter case is treated
\* as Maintenance at the probe, at a window and at a sub-batch, well-formed XML
\* or not: none of its counts, identifiers or articles are used.
C9_MaintenanceBodyIsNeverUsed ==
    [][(pc \in GotStates /\ ~reply.fail /\ HasMaintenanceAnyCase(Decode(reply.body))) =>
         (/\ all_pmids' = all_pmids
          /\ papers' = papers
          /\ (pc = "probe_got" =>
                pc' = "searched" /\ result' = [translation |-> Query, pmids |-> <<>>, total |-> 0]))]_vars

\* a sub-batch answered by well-formed XML that mentions MainteNANCE and
\* carries articles: no record comes of it
C9_Witness ==
    /\ pc = "done"
    /\ ~reply.fail /\ reply.status = 200
    /\ reply.body = BodyXmlMaintenance
    /\ reply.doc.wf /\ reply.doc.articles # <<>>
    /\ RequestsOfKind("efetch") # {}
    /\ papers = <<>>

RECURSIVE SentIds(_)
SentIds(tr) ==
    IF tr = <<>> THEN <<>>
    ELSE SentIds(SubSeq(tr, 1, Len(tr) - 1))
         \o (IF tr[Len(tr)].kind = "efetch" THEN tr[Len(tr)].ids ELSE <<>>)

\* identifiers[startIndex : startIndex + count], cut at the end of the list
ClaimedSlice ==
    LET n == Min(start_idx + count, Len(pmids)) - start_idx
    IN  [i \in 1..Max(n, 0) |-> pmids[start_idx + i]]

\* C10: the paged fetch sends, in its sub-batch requests, exactly the
\* identifiers of identifiers[startIndex : startIndex + count] in list order,
\* and an empty slice sends no request.
C10_PagedFetchSendsTheSlice ==
    LET sent == SentIds(trace)
    IN  /\ \A i \in RequestsOfKind("efetch") : trace[i].ids # <<>>
        /\ Len(sent) <= Len(ClaimedSlice)
        /\ sent = SubSeq(ClaimedSlice, 1, Len(sent))
        /\ (pc = "done" => sent = ClaimedSlice)

\* a slice that starts inside the first sub-batch and needs two requests
C10_Witness ==
    /\ pc = "done"
    /\ Len(pmids) = 41 /\ start_idx = 1 /\ count = 21
    /\ Cardinality(RequestsOfKind("efetch")) = 2
    /\ Len(SentIds(trace)) = 21

\* the components the claim joins: the texts of Year, Month and Day, '' for a
\* missing element
DateComponents(pd) == <<DatePart(pd.year), DatePart(pd.month), DatePart(pd.day)>>

NonEmptyOf(parts) == SelectSeq(parts, LAMBDA x : x # <<>>)

\* the parts joined by single hyphens
RECURSIVE JoinWithHyphens(_)
JoinWithHyphens(parts) ==
    IF parts = <<>> THEN <<>>
    ELSE IF Len(parts) = 1 THEN parts[1]
    ELSE parts[1] \o <<"-">> \o JoinWithHyphens(Tail(parts))

\* elements whose Year, Month and Day are each missing or carry text
HasTextualDate(a) ==
    /\ a.pubdate.present
    /\ ~(a.pubdate.year.present /\ a.pubdate.year.none)
    /\ ~(a.pubdate.month.present /\ a.pubdate.month.none)
    /\ ~(a.pubdate.day.present /\ a.pubdate.day.none)

\* C11: the publication date of a parsed record is the non-empty components
\* among year, month and day joined by single hyphens, so it has no two
\* consecutive hyphens and no hyphen at either end.
C11_DateJoinsNonEmptyComponents ==
    pc = "done" =>
        \A i \in 1..Len(papers) :
            HasTextualDate(reply.doc.articles[i]) =>
                papers[i].publication_date =
                    JoinWithHyphens(NonEmptyOf(DateComponents(reply.doc.articles[i].pubdate)))

\* C12: every record the fetch stage returns has a non-empty id, whatever
\* children the PubmedArticle element has or lacks.
C12_RecordIdNonEmpty ==
    \A k \in 1..Len(returned) :
        \A i \in 1..Len(returned[k]) : returned[k][i].pmid \notin {PyNone, ""}

\* C13: no two records of the sequence one fetch call returns have the same id.
C13_RecordIdsDistinct ==
    \A k \in 1..Len(returned) :
        \A i, j \in 1..Len(returned[k]) :
            i # j => returned[k][i].pmid # returned[k][j].pmid

\* C15: the record parsed from an article element without ArticleTitle has
\* the title "No title available".
C15_MissingTitleGivesSentinel ==
    pc = "done" =>
        /\ Len(papers) = Len(reply.doc.articles)
        /\ \A i \in 1..Len(papers) :
              reply.doc.articles[i].title = "absent" =>
                  papers[i].title = "No title available"

\* an article without ArticleTitle has been parsed into the returned record
C15_Witness ==
    /\ pc = "done"
    /\ Len(papers) = 1
    /\ reply.doc.articles[1].title = "absent"
    /\ returned = <<papers>>

\* a response the claims call failed: transport failure (an HTTP error status
\* included), Maintenance, Malformed, or XML that does not parse
AnswerFailed(r) ==
    \/ r.fail
    \/ r.status >= 400
    \/ IsMaintenancePage(r.body)
    \/ ~IsValidXmlResponse(r.body)
    \/ ~r.doc.wf

\* the window size the claims name: min(1000, maxResults)
ClaimedWindowSize == Min(1000, max_results)

WindowAnswers == SelectSeq(received, LAMBDA x : x.req.kind = "esearch_window")

\* the Id lists of the windows that succeeded, one after the other
RECURSIVE ConcatSucceeded(_)
ConcatSucceeded(answers) ==
    IF answers = <<>> THEN <<>>
    ELSE (IF AnswerFailed(Head(answers).reply) THEN <<>> ELSE Head(answers).reply.doc.ids)
         \o ConcatSucceeded(Tail(answers))

\* C17: the identifier list search returns is the concatenation, in increasing
\* window-offset order, of the Id lists of the windows that succeeded, each in
\* its upstream order, nothing reordered, changed or dropped as a duplicate;
\* the router hands that list unchanged to fetch.
C17_IdsAreTheConcatenation ==
    /\ pc = "searched" =>
          /\ result.pmids = ConcatSucceeded(WindowAnswers)
          /\ \A i, j \in 1..Len(WindowAnswers) :
                i < j => WindowAnswers[i].req.retstart < WindowAnswers[j].req.retstart
    /\ (impl = "svc" /\ pc \in {"batch_wait", "batch_got", "done", "fetch_raised"}) =>
          pmids = result.pmids

\* two windows succeeded and the identifier 22 of both is returned twice
C17_Witness ==
    /\ pc = "searched"
    /\ Len(WindowAnswers) = 2
    /\ result.pmids = <<"22", "11", "22">>

\* the window requests sent so far, in order
WindowsSent == SelectSeq(trace, LAMBDA x : x.kind = "esearch_window")

\* the offsets 0, W, 2W, ... below min(totalCount, maxResults), each with the
\* limit min(W, maxResults - offset)
ClaimedWindows ==
    LET W == ClaimedWindowSize
        stop == Min(total_count, max_results)
        n == (stop + W - 1) \div W
    IN  [k \in 1..n |->
            [kind |-> "esearch_window", retstart |-> (k - 1) * W,
             retmax |-> Min(W, max_results - (k - 1) * W), ids |-> <<>>]]

RECURSIVE SumOfLimits(_)
SumOfLimits(ws) == IF ws = <<>> THEN 0 ELSE Head(ws).retmax + SumOfLimits(Tail(ws))

\* C18: after a probe that gave totalCount > 0, with maxResults >= 1, the
\* window requests go out at the offsets 0, W, 2W, ... below
\* min(totalCount, maxResults), in increasing order, each with the limit
\* min(W, maxResults - offset); the ranges are pairwise disjoint, cover
\* [0, min(totalCount, maxResults)) and their limits sum to at most maxResults.
\* (The ranges cover the interval when the first starts at 0, none starts
\* beyond the end of the one before it, and the last ends at or after the
\* interval's end.)
C18_WindowsPartitionTheRange ==
    (total_count > 0 /\ max_results >= 1) =>
        /\ Len(WindowsSent) <= Len(ClaimedWindows)
        /\ WindowsSent = SubSeq(ClaimedWindows, 1, Len(WindowsSent))
        /\ pc \notin {"window_wait", "window_got"} =>
              /\ WindowsSent = ClaimedWindows
              /\ \A i, j \in 1..Len(WindowsSent) :
                    i < j => WindowsSent[i].retstart + WindowsSent[i].retmax
                                <= WindowsSent[j].retstart
              /\ WindowsSent[1].retstart = 0
              /\ \A i \in 1..(Len(WindowsSent) - 1) :
                    WindowsSent[i + 1].retstart <= WindowsSent[i].retstart + WindowsSent[i].retmax
              /\ WindowsSent[Len(WindowsSent)].retstart + WindowsSent[Len(WindowsSent)].retmax
                    >= Min(total_count, max_results)
              /\ SumOfLimits(WindowsSent) <= max_results

\* search has returned after the windows at 0 (limit 1000) and 1000 (limit 1)
C18_Witness ==
    /\ pc = "searched"
    /\ total_count = 2500
    /\ max_results = 1001
    /\ Len(WindowsSent) = 2
    /\ WindowsSent[2].retstart = 1000
    /\ WindowsSent[2].retmax = 1

\* the list the fetch call runs over: what the router passes, or the slice of
\* the paged fetch
FetchedList == IF impl = "svc" THEN result.pmids ELSE ClaimedSlice

\* the sub-batch requests sent so far, in order
SubBatchesSent == SelectSeq(trace, LAMBDA x : x.kind = "efetch")

\* ceil(n / 20)
ClaimedRequestCount(n) == (n + 19) \div 20

\* the k-th run of 20 identifiers of the list, the last one shorter
ClaimedSubBatch(list, k) ==
    [i \in 1..Min(20, Len(list) - 20 * (k - 1)) |-> list[20 * (k - 1) + i]]

\* the records of the sub-batch answers received, one sub-batch after the
\* other; a failed sub-batch has none
RECURSIVE ConcatRecords(_)
ConcatRecords(answers) ==
    IF answers = <<>> THEN <<>>
    ELSE (IF AnswerFailed(Head(answers).reply) THEN <<>>
          ELSE [i \in 1..Len(Head(answers).reply.doc.articles) |->
                   ParseArticle(Head(answers).reply.doc.articles[i])])
         \o ConcatRecords(Tail(answers))

\* C14: two fetch calls with the same identifier list, against an upstream
\* that answers each request with the same bytes, return record sequences of
\* equal length with identical field values position by position.
C14_SecondFetchReturnsTheSame ==
    Len(returned) = 2 =>
        /\ Len(returned[1]) = Len(returned[2])
        /\ \A i \in 1..Len(returned[1]) : returned[1][i] = returned[2][i]

\* both calls are over: the first sub-batch gave its 20 records each time,
\* the two others failed each time
C14_Witness ==
    /\ Len(returned) = 2
    /\ upstream = "same_mixed"
    /\ Len(FetchedList) = 41
    /\ Len(returned[2]) = 20

\* C19: fetch over n identifiers sends ceil(n/20) sub-batch requests in list
\* order, each with at most 20 identifiers, every position of the list in
\* exactly one request; the returned records are the per-sub-batch records
\* one after the other in sub-batch order.
C19_SubBatchesPartitionTheList ==
    /\ pc \in {"batch_wait", "batch_got", "done"} =>
          /\ Len(SubBatchesSent) <= ClaimedRequestCount(Len(FetchedList))
          /\ \A k \in 1..Len(SubBatchesSent) :
                /\ SubBatchesSent[k].ids = ClaimedSubBatch(FetchedList, k)
                /\ Len(SubBatchesSent[k].ids) <= 20
    /\ pc = "done" =>
          /\ Len(SubBatchesSent) = ClaimedRequestCount(Len(FetchedList))
          /\ SentIds(trace) = FetchedList
          /\ papers = ConcatRecords(received)
          /\ returned = <<papers>>

\* 41 identifiers went out in three requests and every sub-batch gave records
C19_Witness ==
    /\ pc = "done"
    /\ Len(FetchedList) = 41
    /\ Len(SubBatchesSent) = 3
    /\ Len(SubBatchesSent[3].ids) = 1
    /\ Len(papers) = 41

\* C20: a sub-batch whose request fails in transport, is classified
\* Maintenance or Malformed, or does not parse adds no records; the next
\* sub-batch is still requested, and the records of the sub-batches that
\* succeed are returned.
C20_FailedSubBatchIsSkipped ==
    [][/\ (pc = "batch_got" /\ AnswerFailed(reply)) =>
            /\ papers' = papers
            /\ IF start + 20 < Len(FetchedList)
               THEN /\ pc' = "batch_wait"
                    /\ trace'[Len(trace')].kind = "efetch"
                    /\ trace'[Len(trace')].ids =
                          ClaimedSubBatch(FetchedList, (start \div 20) + 2)
               ELSE /\ pc' = "done"
                    /\ returned' = Append(returned, papers)
       /\ (pc = "batch_got" /\ ~AnswerFailed(reply)) =>
            /\ papers' = papers \o ConcatRecords(<<[req |-> trace[Len(trace)], reply |-> reply]>>)
            /\ pc' = "done" => returned' = Append(returned, papers')]_vars

\* the first sub-batch failed, the second gave its 20 records, and these are returned
C20_Witness ==
    /\ pc = "done"
    /\ Len(received) >= 2
    /\ AnswerFailed(received[1].reply)
    /\ ~AnswerFailed(received[2].reply)
    /\ Len(papers) >= 20
    /\ papers[1].pmid = FetchedList[21]
    /\ returned = <<papers>>

\* C21: in the fetch stage a rate-limit delay follows every sub-batch
\* request, whether it succeeded or failed: no two sub-batch requests go out
\* without a delay between them, and the last one is followed by a delay too.
C21_DelayAfterEverySubBatch ==
    /\ \A i \in 1..(Len(trace) - 1) :
          trace[i].kind = "efetch" => trace[i + 1].kind = "sleep"
    /\ (pc = "done" /\ trace # <<>>) => trace[Len(trace)].kind = "sleep"

\* the first sub-batch failed, a delay followed, and the second was requested
C21_Witness ==
    /\ Len(trace) >= 3
    /\ trace[1].kind = "efetch"
    /\ trace[2].kind = "sleep"
    /\ trace[3].kind = "efetch"
    /\ received # <<>>
    /\ AnswerFailed(received[1].reply)

\* C22: within one invocation the search stage requests each window offset
\* at most once and the fetch stage each sub-batch at most once: a window or
\* sub-batch that failed is never requested again.
C22_EachOffsetAtMostOnce ==
    \A i, j \in 1..Len(trace) :
        (i < j /\ trace[i].kind = trace[j].kind
               /\ trace[i].kind \in {"esearch_window", "efetch"})
            => trace[i].retstart < trace[j].retstart

\* a sub-batch failed and the stage went on to the end without asking for it again
C22_Witness ==
    /\ pc = "done"
    /\ Len(SubBatchesSent) = 3
    /\ Len(received) = 3
    /\ AnswerFailed(received[2].reply)

\* the records of the elements of arts whose extraction succeeds, in the order
\* of the document
RECURSIVE RecordsOfExtracted(_)
RecordsOfExtracted(arts) ==
    IF arts = <<>> THEN <<>>
    ELSE LET rest == RecordsOfExtracted(Tail(arts))
         IN  IF Head(arts).raises THEN rest ELSE <<ParseArticle(Head(arts))>> \o rest

\* C23: when the extraction of one article of a sub-batch response fails,
\* only that article is dropped: the call returns the records of all the other
\* articles of the response, in document order.
C23_OnlyFailingArticleDropped ==
    (pc = "done" /\ Len(received) = 1 /\ ~AnswerFailed(received[1].reply))
        => papers = RecordsOfExtracted(received[1].reply.doc.articles)

C23_Witness ==
    /\ pc = "done"
    /\ Len(received) = 1
    /\ Len(received[1].reply.doc.articles) = 3
    /\ received[1].reply.doc.articles[1].raises = FALSE
    /\ received[1].reply.doc.articles[2].raises = TRUE
    /\ received[1].reply.doc.articles[3].raises = FALSE
    /\ Len(papers) = 2
    /\ papers[1].pmid # papers[2].pmid

\* the decoded text begins with '<' once the white space before it is set aside
TrimmedTextBeginsWithLt(body) ==
    LET text == Decode(body)
    IN  \E i \in 1..Len(text) :
            /\ text[i] = "<"
            /\ \A j \in 1..(i - 1) : text[j] \in Whitespace

\* the three classes the claim names
ClaimedClass(body) ==
    IF IsMaintenancePage(body) THEN "Maintenance"
    ELSE IF TrimmedTextBeginsWithLt(body) THEN "Valid"
    ELSE "Malformed"

\* the records of the answers whose body is Valid and parses: the only ones
\* whose document the XML parser was given
RECURSIVE RecordsOfValidAnswers(_)
RecordsOfValidAnswers(answers) ==
    IF answers = <<>> THEN <<>>
    ELSE LET r == Head(answers).reply
         IN  (IF ~r.fail /\ r.status < 400 /\ ClaimedClass(r.body) = "Valid" /\ r.doc.wf
              THEN [i \in 1..Len(r.doc.articles) |-> ParseArticle(r.doc.articles[i])]
              ELSE <<>>)
             \o RecordsOfValidAnswers(Tail(answers))

\* C24: a body with no maintenance keyword is Valid, and handed to the XML
\* parser, exactly when its decoded, whitespace-trimmed text begins with '<';
\* otherwise, the empty body included, it is Malformed and its document is
\* never used. Every body is in exactly one of the three classes.
C24_ValidExactlyWhenTrimmedTextBeginsWithLt ==
    /\ \A k \in 1..Len(received) :
          LET body == received[k].reply.body
          IN  ~received[k].reply.fail =>
                /\ (ClaimedClass(body) = "Maintenance") = IsMaintenancePage(body)
                /\ (ClaimedClass(body) = "Valid") =
                      (~IsMaintenancePage(body) /\ IsValidXmlResponse(body))
                /\ (ClaimedClass(body) = "Malformed") =
                      (~IsMaintenancePage(body) /\ ~IsValidXmlResponse(body))
    /\ pc = "done" => papers = RecordsOfValidAnswers(received)

\* a document behind a byte order mark, which the parser would accept, was
\* Malformed and gave no record; the document of the next answer, behind a
\* line feed, was Valid and gave its records
C24_Witness ==
    /\ pc = "done"
    /\ Len(received) = 2
    /\ received[1].reply.body = <<ByteOrderMark,"<","a",">">>
    /\ received[1].reply.doc.wf
    /\ received[2].reply.body = BodyTag
    /\ Len(received[2].reply.doc.articles) = 1
    /\ Len(papers) = 1

\* C25: search_papers returns normally for every max_results >= 0 when the
\* probe succeeded with a total count above zero; with max_results = 0 it
\* sends no window request and returns (translation, [], total count).
C25_ZeroMaxResultsReturns ==
    (impl = "svc" /\ max_results >= 0 /\ total_count > 0) =>
        /\ pc # "search_raised"
        /\ (max_results = 0 /\ pc = "searched") =>
              /\ result = SearchResult(translation, <<>>, total_count)
              /\ RequestsOfKind("esearch_window") = {}

C27_PageIsTheSliceBeforeCurrentStart ==
    /\ current_start % 50 = 0
    /\ current_start >= 50
    /\ (pc = "prompt" /\ choice \in {"n", "p", "j"}) =>
          /\ start_idx = current_start - 50
          /\ count = 50
          /\ IdsOf(papers) = PySlice(pmids, current_start - 50, current_start)

\* after two n and a p the second page is displayed again
C27_Witness ==
    /\ pc = "prompt"
    /\ choice = "p"
    /\ entered = 3
    /\ current_start = 100
    /\ Len(papers) = 50
    /\ papers[1].pmid = pmids[51]

\* C28: every call of fetch_article_details for an accepted n or j command
\* has start_idx < len(all_pmids).
C28_PageStartsInsideTheList ==
    (pc = "paged_init" /\ choice \in {"n", "j"}) => start_idx < Len(pmids)

\* C29: after a successful POST /extract-data with paper_ids P every stored
\* paper whose pmid is in P has extracted_data that is not null, also when the
\* same pmid is stored under two research questions.
C29_EveryNamedPaperHasExtractedData ==
    (apiCall.kind = "extract" /\ apiCall.status = 200) =>
        \A k \in RowKeys :
            (store[k].stored /\ k[2] \in apiCall.pmids) =>
                store[k].extracted_data # PyNone

\* C30: POST /screening-columns for question q changes score and
\* screening_json only of papers stored under q whose pmid is in the request:
\* every other paper keeps its score, screening_json and extracted_data, no
\* paper's extracted_data changes, no paper is added or removed, and a pmid
\* with no paper under q changes nothing.
C30_ScreeningChangesOnlyNamedPapersOfTheQuestion ==
    [][apiCall'.kind = "screen" =>
          \A k \in RowKeys :
              /\ store'[k].stored = store[k].stored
              /\ store'[k].extracted_data = store[k].extracted_data
              /\ (k[1] # apiCall'.question_id \/ k[2] \notin apiCall'.pmids
                    \/ ~store[k].stored) => store'[k] = store[k]]_vars

\* pmid 11 is stored under both questions and pmid 22 under q2 only; a
\* screening for q1 that named 11 and 22 has scored q1's paper 11 and nothing
\* else
C30_Witness ==
    /\ apiCall.kind = "screen"
    /\ apiCall.status = 200
    /\ apiCall.question_id = "q1"
    /\ apiCall.pmids = {"11", "22"}
    /\ store[<<"q1", "11">>].score = "5.0"
    /\ store[<<"q2", "11">>].stored
    /\ store[<<"q2", "11">>].score = PyNone
    /\ ~store[<<"q1", "22">>].stored
    /\ store[<<"q2", "22">>].stored
    /\ store[<<"q2", "22">>].score = PyNone

====
